---- MODULE Spec2Model ----
(***************************************************************************)
(* Model of src/python/build_html.py: the static page generator that       *)
(* injects every page template into the base template, substitutes the     *)
(* keys of each language dictionary, checks that no key is left, resolves  *)
(* the {If"page"...} tags and writes one file per (page, language).        *)
(*                                                                         *)
(* A text is a sequence of one-character strings.                           *)
(***************************************************************************)
EXTENDS Integers, Sequences, FiniteSets, TLC

VARIABLES
    base,       \* contents of res/templates/base.html (line 10)
    listing,    \* os.listdir('../../res/templates/'), in the order returned
    templates,  \* contents of res/templates/<filename>.html, by filename
    tarje,      \* contents of res/tarje/<lang_code>.json: a sequence of
                \* <<key, value>> pairs in the order of the JSON object
    pc,         \* the statement the script is about to run
    fileIdx,    \* position of the outer loop in listing
    filename,   \* the loop variable filename, extension stripped
    langIdx,    \* position of the inner loop in LANGUAGES
    page,       \* the working text
    lang,       \* the dictionary loaded for the current language
    keyIdx,     \* position of the loop over lang.items()
    written,    \* every file write so far, in order: [dir, name, text]
    error       \* the key named by the KeyError, <<>> while none is raised

vars == <<base, listing, templates, tarje, pc, fileIdx, filename, langIdx,
          page, lang, keyIdx, written, error>>

inputs == <<base, listing, templates, tarje>>

----------------------------------------------------------------------------
(* Configuration constants of the script.                                  *)

LANGUAGES == <<"en", "es", "jp", "pd">>

DEFAULT_LANGUAGE == "pd"

\* the directory of the copy written without a language directory
Root == "root"

----------------------------------------------------------------------------
(* Literal texts of the script.                                            *)

ContentToken == <<"{", "C", "o", "n", "t", "e", "n", "t", "}">>

NameToken == <<"{", ".", "n", "a", "m", "e", "}">>

IfOpen == <<"{", "I", "f", "\"">>

Html == <<".", "h", "t", "m", "l">>

BaseHtml == <<"b", "a", "s", "e">> \o Html

\* f'{{{key}}}'
KeyToken(key) == <<"{">> \o key \o <<"}">>

\* the character class [a-zA-Z0-9-.]
KeyChars ==
    { "a", "b", "c", "d", "e", "f", "g", "h", "i", "j", "k", "l", "m",
      "n", "o", "p", "q", "r", "s", "t", "u", "v", "w", "x", "y", "z",
      "A", "B", "C", "D", "E", "F", "G", "H", "I", "J", "K", "L", "M",
      "N", "O", "P", "Q", "R", "S", "T", "U", "V", "W", "X", "Y", "Z",
      "0", "1", "2", "3", "4", "5", "6", "7", "8", "9", "-", "." }

----------------------------------------------------------------------------
(* str.endswith, str.replace                                               *)

EndsWith(text, suffix) ==
    /\ Len(suffix) <= Len(text)
    /\ SubSeq(text, Len(text) - Len(suffix) + 1, Len(text)) = suffix

\* text[i:].startswith(old), i counted from 1
OccursAt(text, old, i) ==
    /\ i + Len(old) - 1 <= Len(text)
    /\ SubSeq(text, i, i + Len(old) - 1) = old

RECURSIVE ReplaceFrom(_, _, _, _)
ReplaceFrom(text, old, new, i) ==
    IF i > Len(text) THEN <<>>
    ELSE IF OccursAt(text, old, i)
         THEN new \o ReplaceFrom(text, old, new, i + Len(old))
         ELSE <<text[i]>> \o ReplaceFrom(text, old, new, i + 1)

\* the mutant of Replace that stops after the first occurrence
RECURSIVE ReplaceFirstFrom(_, _, _, _)
ReplaceFirstFrom(text, old, new, i) ==
    IF i > Len(text) THEN <<>>
    ELSE IF OccursAt(text, old, i)
         THEN new \o SubSeq(text, i + Len(old), Len(text))
         ELSE <<text[i]>> \o ReplaceFirstFrom(text, old, new, i + 1)

ReplaceFirst(text, old, new) == ReplaceFirstFrom(text, old, new, 1)

\* text.replace(old, new) for a non-empty old: every occurrence, found left
\* to right without overlap, is replaced; the result is not scanned again
Replace(text, old, new) == ReplaceFrom(text, old, new, 1)

----------------------------------------------------------------------------
\* line 39: re.sub(fr'{{If"{filename}"([^}}]*)}}', '\\1', page)

\* one pattern character of the interpolated filename against one character
\* of the text: '.' is the regex wildcard (anything but a newline); letters,
\* digits and '-' stand for themselves
PatternCharMatches(p, c) == IF p = "." THEN c # "\n" ELSE p = c

\* the first position at or after i that holds a '}', 0 if there is none
RECURSIVE NextClose(_, _)
NextClose(text, i) ==
    IF i > Len(text) THEN 0
    ELSE IF text[i] = "}" THEN i ELSE NextClose(text, i + 1)

\* the first position at or after i that holds a '"', 0 if there is none
RECURSIVE NextQuote(_, _)
NextQuote(text, i) ==
    IF i > Len(text) THEN 0
    ELSE IF text[i] = "\"" THEN i ELSE NextQuote(text, i + 1)

\* where the body (group 1) of a match starting at i begins
KeepBodyStart(name, i) == i + Len(IfOpen) + Len(name) + 1

\* the keep pattern for page `name` matches at position i
KeepMatchAt(text, name, i) ==
    /\ OccursAt(text, IfOpen, i)
    /\ KeepBodyStart(name, i) - 1 <= Len(text)
    /\ \A k \in 1..Len(name) : PatternCharMatches(name[k], text[i + Len(IfOpen) + k - 1])
    /\ text[KeepBodyStart(name, i) - 1] = "\""
    /\ NextClose(text, KeepBodyStart(name, i)) # 0

RECURSIVE KeepFrom(_, _, _)
KeepFrom(text, name, i) ==
    IF i > Len(text) THEN <<>>
    ELSE IF KeepMatchAt(text, name, i)
         THEN LET b == KeepBodyStart(name, i)
                  e == NextClose(text, b)
              IN  SubSeq(text, b, e - 1) \o KeepFrom(text, name, e + 1)
         ELSE <<text[i]>> \o KeepFrom(text, name, i + 1)

\* line 39: every match is replaced by its group 1
KeepPass(text, name) == KeepFrom(text, name, 1)

----------------------------------------------------------------------------
\* line 40: re.sub(fr'{{If"[^"]*"[^}}]*}}', '', page)

\* the end of the strip pattern's match at position i, 0 if it does not
\* match: {If" , the characters up to the next '"', the characters up to
\* the next '}'
StripMatchEnd(text, i) ==
    IF ~OccursAt(text, IfOpen, i) THEN 0
    ELSE LET q == NextQuote(text, i + Len(IfOpen))
         IN  IF q = 0 THEN 0 ELSE NextClose(text, q + 1)

RECURSIVE StripFrom(_, _)
StripFrom(text, i) ==
    IF i > Len(text) THEN <<>>
    ELSE IF StripMatchEnd(text, i) # 0
         THEN StripFrom(text, StripMatchEnd(text, i) + 1)
         ELSE <<text[i]>> \o StripFrom(text, i + 1)

\* the mutant of StripPass that removes the first tag only (count=1)
RECURSIVE StripFirstFrom(_, _)
StripFirstFrom(text, i) ==
    IF i > Len(text) THEN <<>>
    ELSE IF StripMatchEnd(text, i) # 0
         THEN SubSeq(text, StripMatchEnd(text, i) + 1, Len(text))
         ELSE <<text[i]>> \o StripFirstFrom(text, i + 1)

StripFirst(text) == StripFirstFrom(text, 1)

\* line 40: every match is removed
StripPass(text) == StripFrom(text, 1)

----------------------------------------------------------------------------
\* line 34: re.search(r'{([a-zA-Z0-9-.]+)}', page)

\* the end of the run of key characters that starts at position i
RECURSIVE RunEnd(_, _)
RunEnd(text, i) ==
    IF i <= Len(text) /\ text[i] \in KeyChars THEN RunEnd(text, i + 1) ELSE i

\* the mutant of KeyMatchAt whose pattern has lost the +
KeyMatchAtOneChar(text, i) ==
    /\ text[i] = "{"
    /\ RunEnd(text, i + 1) = i + 2
    /\ RunEnd(text, i + 1) <= Len(text)
    /\ text[RunEnd(text, i + 1)] = "}"

\* the mutant of KeyMatchAt whose character class is [a-zA-Z0-9]
KeyMatchAtNoPunct(text, i) ==
    /\ text[i] = "{"
    /\ RunEnd(text, i + 1) > i + 1
    /\ RunEnd(text, i + 1) <= Len(text)
    /\ text[RunEnd(text, i + 1)] = "}"
    /\ \A j \in (i + 1)..(RunEnd(text, i + 1) - 1) : text[j] \notin {"-", "."}

\* the pattern matches at position i
KeyMatchAt(text, i) ==
    /\ text[i] = "{"
    /\ RunEnd(text, i + 1) > i + 1
    /\ RunEnd(text, i + 1) <= Len(text)
    /\ text[RunEnd(text, i + 1)] = "}"

\* the positions where the pattern matches
KeyMatches(text) == { i \in 1..Len(text) : KeyMatchAt(text, i) }

Min(S) == CHOOSE x \in S : \A y \in S : x <= y

\* the mutant of RemainingKey that looks for a key once the tags are gone
RemainingKeyOutsideTags(text) ==
    LET rest == StripPass(text)
    IN  IF KeyMatches(rest) = {} THEN <<>>
        ELSE LET i == Min(KeyMatches(rest))
             IN  SubSeq(rest, i + 1, RunEnd(rest, i + 1) - 1)

\* remaining_keys.group(1) of the leftmost match; <<>> when there is none
\* (a match never has an empty group)
RemainingKey(text) ==
    IF KeyMatches(text) = {} THEN <<>>
    ELSE LET i == Min(KeyMatches(text))
         IN  SubSeq(text, i + 1, RunEnd(text, i + 1) - 1)

----------------------------------------------------------------------------
(* The steps of one render, lines 24 to 40.                                *)

\* the mutant that injects the page at the first marker only
InjectContentFirst(b, content) == ReplaceFirst(b, ContentToken, content)

\* line 24: base.replace('{Content}', page_file.read())
InjectContent(b, content) == Replace(b, ContentToken, content)

\* line 27: page.replace(f'{{.name}}', filename)
SubstituteName(text, name) == Replace(text, NameToken, name)

\* line 33: page.replace(f'{{{key}}}', value)
SubstituteKey(text, key, value) == Replace(text, KeyToken(key), value)

\* lines 32-33 from the i-th item of the dictionary on
RECURSIVE SubstituteKeysFrom(_, _, _)
SubstituteKeysFrom(text, dict, i) ==
    IF i > Len(dict) THEN text
    ELSE SubstituteKeysFrom(SubstituteKey(text, dict[i][1], dict[i][2]), dict, i + 1)

\* lines 24-33: the text the completeness check of line 34 looks at
Substituted(b, content, name, dict) ==
    SubstituteKeysFrom(SubstituteName(InjectContent(b, content), name), dict, 1)

\* lines 39-40: the keep pass followed by the strip pass
Resolve(text, name) == StripPass(KeepPass(text, name))

----------------------------------------------------------------------------
(* The script, statement by statement.                                     *)

lang_code == LANGUAGES[langIdx]

\* lines 13-15: a listed file that is base.html or no .html file is skipped
SkipFile ==
    /\ pc = "list"
    /\ fileIdx <= Len(listing)
    /\ listing[fileIdx] = BaseHtml \/ ~EndsWith(listing[fileIdx], Html)
    /\ fileIdx' = fileIdx + 1
    /\ UNCHANGED <<inputs, pc, filename, langIdx, page, lang, keyIdx, written, error>>

\* lines 13-18: the next page template; its name loses the extension
EnterFile ==
    /\ pc = "list"
    /\ fileIdx <= Len(listing)
    /\ ~(listing[fileIdx] = BaseHtml \/ ~EndsWith(listing[fileIdx], Html))
    /\ filename' = SubSeq(listing[fileIdx], 1, Len(listing[fileIdx]) - 5)
    /\ langIdx' = 1
    /\ pc' = "lang"
    /\ UNCHANGED <<inputs, fileIdx, page, lang, keyIdx, written, error>>

\* line 49: the listing is exhausted
Finish ==
    /\ pc = "list"
    /\ fileIdx > Len(listing)
    /\ pc' = "done"
    /\ UNCHANGED <<inputs, fileIdx, filename, langIdx, page, lang, keyIdx, written, error>>

\* lines 20-24: the next language; the page template goes into the base
Inject ==
    /\ pc = "lang"
    /\ langIdx <= Len(LANGUAGES)
    /\ page' = InjectContent(base, templates[filename])
    /\ pc' = "name"
    /\ UNCHANGED <<inputs, fileIdx, filename, langIdx, lang, keyIdx, written, error>>

\* line 20: the languages are exhausted, back to the loop over the files
NextFile ==
    /\ pc = "lang"
    /\ langIdx > Len(LANGUAGES)
    /\ fileIdx' = fileIdx + 1
    /\ pc' = "list"
    /\ UNCHANGED <<inputs, filename, langIdx, page, lang, keyIdx, written, error>>

\* the mutant of ReplaceSpecialKey in which an entry of the dictionary for
\* ".name" overrides the page name
ReplaceSpecialKeyFromDict ==
    /\ pc = "name"
    /\ page' = SubstituteKeysFrom(page,
                  SelectSeq(tarje[lang_code],
                            LAMBDA item : item[1] = SubSeq(NameToken, 2, 6))
                    \o << <<SubSeq(NameToken, 2, 6), filename>> >>, 1)
    /\ lang' = tarje[lang_code]
    /\ keyIdx' = 1
    /\ pc' = "keys"
    /\ UNCHANGED <<inputs, fileIdx, filename, langIdx, written, error>>

\* lines 27-31: the special key, then the dictionary is loaded
ReplaceSpecialKey ==
    /\ pc = "name"
    /\ page' = SubstituteName(page, filename)
    /\ lang' = tarje[lang_code]
    /\ keyIdx' = 1
    /\ pc' = "keys"
    /\ UNCHANGED <<inputs, fileIdx, filename, langIdx, written, error>>

\* the mutant of ReplaceBasicKey that takes the items last to first
ReplaceBasicKeyReversed ==
    /\ pc = "keys"
    /\ keyIdx <= Len(lang)
    /\ page' = SubstituteKey(page, lang[Len(lang) + 1 - keyIdx][1],
                                   lang[Len(lang) + 1 - keyIdx][2])
    /\ keyIdx' = keyIdx + 1
    /\ UNCHANGED <<inputs, pc, fileIdx, filename, langIdx, lang, written, error>>

\* lines 32-33: one item of the dictionary
ReplaceBasicKey ==
    /\ pc = "keys"
    /\ keyIdx <= Len(lang)
    /\ page' = SubstituteKey(page, lang[keyIdx][1], lang[keyIdx][2])
    /\ keyIdx' = keyIdx + 1
    /\ UNCHANGED <<inputs, pc, fileIdx, filename, langIdx, lang, written, error>>

\* the mutant of CheckRemainingKeys that saves the page before it raises
CheckRemainingKeysLate ==
    /\ pc = "keys"
    /\ keyIdx > Len(lang)
    /\ IF RemainingKey(page) # <<>>
       THEN /\ pc' = "error"
            /\ error' = RemainingKey(page)
            /\ written' = Append(written,
                    [dir |-> lang_code, name |-> filename, text |-> page])
       ELSE pc' = "keep" /\ error' = error /\ written' = written
    /\ UNCHANGED <<inputs, fileIdx, filename, langIdx, page, lang, keyIdx>>

\* lines 34-36: a remaining key raises the KeyError, which ends the script
CheckRemainingKeys ==
    /\ pc = "keys"
    /\ keyIdx > Len(lang)
    /\ IF RemainingKey(page) # <<>>
       THEN pc' = "error" /\ error' = RemainingKey(page)
       ELSE pc' = "keep" /\ error' = error
    /\ UNCHANGED <<inputs, fileIdx, filename, langIdx, page, lang, keyIdx, written>>

\* line 39
ResolveKeep ==
    /\ pc = "keep"
    /\ page' = KeepPass(page, filename)
    /\ pc' = "strip"
    /\ UNCHANGED <<inputs, fileIdx, filename, langIdx, lang, keyIdx, written, error>>

\* line 40
ResolveStrip ==
    /\ pc = "strip"
    /\ page' = StripPass(page)
    /\ pc' = "save"
    /\ UNCHANGED <<inputs, fileIdx, filename, langIdx, lang, keyIdx, written, error>>

\* the mutant of Save that writes the root copy for every language
SaveRootAlways ==
    /\ pc = "save"
    /\ written' = written \o
            << [dir |-> lang_code, name |-> filename, text |-> page],
               [dir |-> Root, name |-> filename, text |-> page] >>
    /\ langIdx' = langIdx + 1
    /\ pc' = "lang"
    /\ UNCHANGED <<inputs, fileIdx, filename, page, lang, keyIdx, error>>

\* lines 43-47: the file of the language, and the root copy for the default
\* language
Save ==
    /\ pc = "save"
    /\ written' = written \o
            << [dir |-> lang_code, name |-> filename, text |-> page] >> \o
            ( IF lang_code = DEFAULT_LANGUAGE
              THEN << [dir |-> Root, name |-> filename, text |-> page] >>
              ELSE << >> )
    /\ langIdx' = langIdx + 1
    /\ pc' = "lang"
    /\ UNCHANGED <<inputs, fileIdx, filename, page, lang, keyIdx, error>>

Next ==
    \/ SkipFile
    \/ EnterFile
    \/ Finish
    \/ Inject
    \/ NextFile
    \/ ReplaceSpecialKey
    \/ ReplaceBasicKey
    \/ CheckRemainingKeys
    \/ ResolveKeep
    \/ ResolveStrip
    \/ Save

\* the script starts on the files `s` holds
Start(s) ==
    /\ base = s.base
    /\ listing = s.listing
    /\ templates = s.templates
    /\ tarje = s.tarje
    /\ pc = "list"
    /\ fileIdx = 1
    /\ filename = <<>>
    /\ langIdx = 1
    /\ page = <<>>
    /\ lang = <<>>
    /\ keyIdx = 1
    /\ written = <<>>
    /\ error = <<>>

----------------------------------------------------------------------------
(* Input files: texts are built from pieces.                               *)

RECURSIVE Concat(_)
Concat(pieces) ==
    IF pieces = <<>> THEN <<>> ELSE Head(pieces) \o Concat(Tail(pieces))

\* every text made of at most n of the pieces
Texts(pieces, n) == { Concat(s) : s \in UNION { [1..k -> pieces] : k \in 0..n } }

\* every sequence of at most n distinct elements of S
RECURSIVE Arrangements(_, _)
Arrangements(S, n) ==
    IF n = 0 THEN { <<>> }
    ELSE LET shorter == Arrangements(S, n - 1)
         IN  shorter \cup
             { Append(a, x) : a \in { b \in shorter : Len(b) = n - 1 },
                              x \in S }

Distinct(seq) == \A i, j \in 1..Len(seq) : i # j => seq[i] # seq[j]

Range(seq) == { seq[i] : i \in 1..Len(seq) }

\* the same dictionary for every language
SameForAll(dict) == [l \in Range(LANGUAGES) |-> dict]

----------------------------------------------------------------------------
(* The build: several page templates, four languages.                      *)

MaxFiles == 3

PageA == <<"a">>
PageB == <<"b", "2">>
NotesTxt == <<"n", ".", "t", "x", "t">>

FileNames == { BaseHtml, PageA \o Html, PageB \o Html, NotesTxt }

\* the folder always holds base.html, which line 9 opens
Listings ==
    { l \in Arrangements(FileNames, MaxFiles) :
        Distinct(l) /\ BaseHtml \in Range(l) }

KeyT == <<"t">>

BuildBases ==
    { <<"[">> \o ContentToken \o <<"]">>, NameToken \o ContentToken }

BuildFragments == { KeyToken(KeyT), <<"x">> }

\* every language has its own text for t, or one language lacks it
BuildTarje ==
    LET full == [l \in Range(LANGUAGES) |-> << <<KeyT, <<l>> >> >>]
    IN  { full,
          [full EXCEPT !["es"] = <<>>],
          [full EXCEPT ![DEFAULT_LANGUAGE] = <<>>] }

BuildInputs ==
    { [base |-> b, listing |-> l, templates |-> t, tarje |-> d] :
        b \in BuildBases, l \in Listings,
        t \in [{PageA, PageB} -> BuildFragments], d \in BuildTarje }

Init == \E s \in BuildInputs : Start(s)

Spec == Init /\ [][Next]_vars

----------------------------------------------------------------------------
(* One page, bases with no, one or several {Content} markers.              *)

MaxBasePieces == 3

\* one page template next to base.html, in either order of the listing
OnePage(name) == { <<BaseHtml, name \o Html>>, <<name \o Html, BaseHtml>> }

InjectBases == Texts({ ContentToken, <<"x">>, <<"{">> }, MaxBasePieces)

\* a fragment may itself hold the marker
InjectFragments == { <<"y">>, <<>>, KeyToken(KeyT), <<"y">> \o ContentToken }

InjectInputs ==
    { [base |-> b, listing |-> l, templates |-> (PageA :> f),
       tarje |-> SameForAll(<< <<KeyT, <<"v">> >> >>)] :
        b \in InjectBases, l \in OnePage(PageA), f \in InjectFragments }

InitInject == \E s \in InjectInputs : Start(s)

SpecInject == InitInject /\ [][Next]_vars

----------------------------------------------------------------------------
(* One page, dictionaries that miss keys or whose values hold tokens.      *)

MaxKeyPieces == 2

MaxItems == 2

KeyK == <<"k">>
KeyDash == <<"b", "-", "1">>

\* the keys the templates of this section refer to
KeyUniverse == { KeyK, KeyDash, KeyT }

\* the value of k may hold the token of another key
KeysItems ==
    { <<KeyK, <<"1">> >>, <<KeyK, <<"(">> \o KeyToken(KeyDash) \o <<")">> >>,
      <<KeyDash, <<"2">> >>, <<KeyT, <<"3">> >> }

\* a JSON object has every key once
KeysDicts ==
    { d \in Arrangements(KeysItems, MaxItems) :
        \A i, j \in 1..Len(d) : i # j => d[i][1] # d[j][1] }

KeysBases == { ContentToken, KeyToken(KeyT) \o ContentToken, <<"x">> }

KeysFragments ==
    Texts({ KeyToken(KeyK), KeyToken(KeyDash), <<"x">> }, MaxKeyPieces)

KeysInputs ==
    { [base |-> b, listing |-> <<BaseHtml, PageA \o Html>>,
       templates |-> (PageA :> f), tarje |-> SameForAll(d)] :
        b \in KeysBases, f \in KeysFragments, d \in KeysDicts }

InitKeys == \E s \in KeysInputs : Start(s)

SpecKeys == InitKeys /\ [][Next]_vars

----------------------------------------------------------------------------
(* One page, dictionaries with an entry for the special key.               *)

MaxNamePieces == 3

KeyName == <<".", "n", "a", "m", "e">>

\* a page called name.html makes {.name} of {.{.name}}
PageName == <<"n", "a", "m", "e">>

NameBases == { ContentToken, NameToken \o <<":">> \o ContentToken }

NameFragments ==
    Texts({ NameToken, <<"x">>, <<"{", ".">>, <<"}">> }, MaxNamePieces)

NameDicts == { << >>, << <<KeyName, <<"V">> >> >> }

NameInputs ==
    { [base |-> b, listing |-> <<BaseHtml, n \o Html>>,
       templates |-> (n :> f), tarje |-> SameForAll(d)] :
        b \in NameBases, n \in {PageA, PageName}, f \in NameFragments,
        d \in NameDicts }

InitName == \E s \in NameInputs : Start(s)

SpecName == InitName /\ [][Next]_vars

----------------------------------------------------------------------------
(* Conditional tags.                                                       *)

\* {If"name"body}
Tag(name, body) == IfOpen \o name \o <<"\"">> \o body \o <<"}">>

\* a page name with a dot, and a name that differs from it at the dot only
PageDot == <<"a", ".", "b">>
PageAxb == <<"a", "x", "b">>

MaxDotPieces == 2

DotFragments ==
    Texts({ Tag(PageDot, <<"S">>), Tag(PageAxb, <<"T">>), Tag(PageA, <<"U">>),
            <<"x">> }, MaxDotPieces)

DotInputs ==
    { [base |-> <<"[">> \o ContentToken \o <<"]">>,
       listing |-> <<BaseHtml, n \o Html>>,
       templates |-> (n :> f),
       tarje |-> SameForAll(<< <<KeyT, <<"3">> >> >>)] :
        n \in {PageDot, PageAxb, PageA}, f \in DotFragments }

InitDot == \E s \in DotInputs : Start(s)

SpecDot == InitDot /\ [][Next]_vars

\* tags, and text that becomes a tag or a token once a tag inside it is gone
MaxTagPieces == 3

TagPieces ==
    { Tag(PageA, <<"S">>), Tag(PageB, <<"x">>), <<"{", "I", "f">>,
      <<"\"", "a", "\"", "y", "}">>, <<"{">>, <<"k", "k", "}">> }

TagFragments == Texts(TagPieces, MaxTagPieces)

TagInputs ==
    { [base |-> ContentToken, listing |-> <<BaseHtml, n \o Html>>,
       templates |-> (n :> f),
       tarje |-> SameForAll(<< <<KeyT, <<"3">> >> >>)] :
        n \in {PageA, PageDot}, f \in TagFragments }

InitTags == \E s \in TagInputs : Start(s)

SpecTags == InitTags /\ [][Next]_vars

\* two pages; keys inside the bodies of tags
MaxOrderPieces == 1

KeptBody(value) == <<"<">> \o value \o <<">">>

OrderFragments ==
    Texts({ Tag(PageA, KeptBody(KeyToken(KeyT))), Tag(PageA, KeyToken(KeyK)),
            Tag(PageB, KeyToken(KeyK)), <<"x">> }, MaxOrderPieces)

OrderDicts == { << >>, << <<KeyT, <<"3">> >> >> }

OrderInputs ==
    { [base |-> ContentToken,
       listing |-> <<BaseHtml, PageA \o Html, PageB \o Html>>,
       templates |-> t, tarje |-> SameForAll(d)] :
        t \in [{PageA, PageB} -> OrderFragments], d \in OrderDicts }

InitOrder == \E s \in OrderInputs : Start(s)

SpecOrder == InitOrder /\ [][Next]_vars

----------------------------------------------------------------------------
(* What the claims speak about.                                            *)

\* lines 16-18: the page names the loop over the listing renders
PagesOf(l) ==
    { SubSeq(l[i], 1, Len(l[i]) - 5) :
        i \in { j \in 1..Len(l) : l[j] # BaseHtml /\ EndsWith(l[j], Html) } }

\* lines 24-40: the text a render of page `name` in language `code` writes
Rendered(name, code) ==
    Resolve(Substituted(base, templates[name], name, tarje[code]), name)

\* the writes to the file of page `name` in directory `dir`
WritesTo(dir, name) ==
    { i \in 1..Len(written) : written[i].dir = dir /\ written[i].name = name }

\* the text after content injection of the current render
Injected == InjectContent(base, templates[filename])

\* the text after name substitution of the current render
Named == SubstituteName(Injected, filename)

\* the text the completeness check of the current render looks at
Checked == Substituted(base, templates[filename], filename, tarje[lang_code])

\* the keys of a dictionary
KeysOf(dict) == { dict[i][1] : i \in 1..Len(dict) }

----------------------------------------------------------------------------
\* C2: a render that fails the completeness check writes nothing for its
\* (page, language) pair, neither the file of the language nor, for the
\* default language, the root copy: when the KeyError is raised the writes
\* are exactly those of the pairs rendered before (five per finished page,
\* one per earlier language of this page).
C2_NoPartialOutput ==
    pc = "error" =>
        /\ WritesTo(lang_code, filename) = {}
        /\ lang_code = DEFAULT_LANGUAGE => WritesTo(Root, filename) = {}
        /\ Len(written) =
              (Len(LANGUAGES) + 1)
                 * Cardinality(PagesOf(SubSeq(listing, 1, fileIdx - 1)))
              + (langIdx - 1)

\* a render in the default language fails after other pairs were written
C2_Witness ==
    /\ pc = "error"
    /\ lang_code = DEFAULT_LANGUAGE
    /\ Len(written) > Len(LANGUAGES)

----------------------------------------------------------------------------
\* C7: a build in which every render succeeds writes exactly one file per
\* (page, language) pair and exactly one root file per page and nothing
\* else; every file of a language holds the render in that language, and
\* every root file is written right after the file of the default language
\* of the same page, with the same text, and never from another language.
C7_OutputSet ==
    /\ pc = "done" =>
          /\ \A p \in PagesOf(listing) :
                /\ \A l \in Range(LANGUAGES) : Cardinality(WritesTo(l, p)) = 1
                /\ Cardinality(WritesTo(Root, p)) = 1
          /\ Len(written) = Cardinality(PagesOf(listing)) * (Len(LANGUAGES) + 1)
    /\ \A i \in 1..Len(written) :
          IF written[i].dir = Root
          THEN /\ i > 1
               /\ written[i - 1] = [written[i] EXCEPT !.dir = DEFAULT_LANGUAGE]
               /\ written[i].text = Rendered(written[i].name, DEFAULT_LANGUAGE)
          ELSE written[i].text = Rendered(written[i].name, written[i].dir)

\* a finished build of two pages in which a page reads differently in the
\* default language and in another language
C7_Witness ==
    /\ pc = "done"
    /\ Cardinality(PagesOf(listing)) = 2
    /\ \E p \in PagesOf(listing) : Rendered(p, "en") # Rendered(p, DEFAULT_LANGUAGE)

----------------------------------------------------------------------------
(* str.replace told by positions, for a token `old` that cannot overlap    *)
(* itself: every occurrence of old in text has become new in result, and   *)
(* every other character of text is in result, in order.                   *)

Marks(text, old) == { i \in 1..Len(text) : OccursAt(text, old, i) }

InsideMark(text, old, i) ==
    \E j \in Marks(text, old) : j < i /\ i < j + Len(old)

Shift(text, old, new, i) ==
    Cardinality({ j \in Marks(text, old) : j < i }) * (Len(new) - Len(old))

EveryReplaced(result, text, old, new) ==
    /\ Len(result) =
          Len(text) + Cardinality(Marks(text, old)) * (Len(new) - Len(old))
    /\ \A i \in 1..Len(text) :
          LET k == i + Shift(text, old, new, i)
          IN  IF i \in Marks(text, old)
              THEN SubSeq(result, k, k + Len(new) - 1) = new
              ELSE InsideMark(text, old, i) \/ result[k] = text[i]

\* only the leftmost occurrence of old has become new
FirstReplaced(result, text, old, new) ==
    IF Marks(text, old) = {} THEN result = text
    ELSE LET i == Min(Marks(text, old))
         IN  result = SubSeq(text, 1, i - 1) \o new
                         \o SubSeq(text, i + Len(old), Len(text))

----------------------------------------------------------------------------
\* C6 as stated: when the base holds more than one {Content} marker, the
\* text after content injection has the page fragment at the first marker
\* only and the later markers as they were.
C6_FirstMarkerOnly ==
    (pc = "name" /\ Cardinality(Marks(base, ContentToken)) > 1) =>
        FirstReplaced(page, base, ContentToken, templates[filename])

\* C6 as amended: content injection replaces every {Content} marker of the
\* base by the page fragment (str.replace without a count); a marker inside
\* the inserted fragment is not replaced.
C6_EveryMarker ==
    pc = "name" =>
        EveryReplaced(page, base, ContentToken, templates[filename])

\* a base with two markers received a fragment that is not the marker
C6_Witness ==
    /\ pc = "name"
    /\ Cardinality(Marks(base, ContentToken)) > 1
    /\ templates[filename] # ContentToken
    /\ page # base

----------------------------------------------------------------------------
\* the text holds the token {k}
References(text, k) == Marks(text, KeyToken(k)) # {}

\* the keys of KeyUniverse that the base or the page fragment refers to and
\* the dictionary of the current language lacks
MissingInFiles ==
    { k \in KeyUniverse :
        /\ References(base, k) \/ References(templates[filename], k)
        /\ k \notin KeysOf(tarje[lang_code]) }

\* the same, for the text that content injection makes of the two
MissingInjected ==
    { k \in KeyUniverse :
        References(Injected, k) /\ k \notin KeysOf(tarje[lang_code]) }

\* C1 as stated: when the base or the fragment refers to a key the
\* dictionary lacks, the render does not get past the completeness check,
\* and the error names that key, for each such key.
C1_EachMissingKeyNamed ==
    /\ pc \in {"keep", "strip", "save"} => MissingInFiles = {}
    /\ pc = "error" => \A k \in MissingInFiles : error = k

\* C1 as amended: when the text that content injection makes of the base
\* and the fragment refers to a key the dictionary lacks, the render does
\* not get past the completeness check; at the error every such key is still
\* an unresolved token of the text, and the error names one key only, the
\* key of the leftmost token left in the text.
C1_LeftmostMissingKeyNamed ==
    /\ pc \in {"keep", "strip", "save"} => MissingInjected = {}
    /\ pc = "error" =>
          /\ \A k \in MissingInjected : References(page, k)
          /\ References(page, error)
          /\ \A k \in KeyUniverse : \A i \in Marks(page, KeyToken(k)) :
                Min(Marks(page, KeyToken(error))) <= i

\* a render failed with two keys missing, one of which the error does not
\* name
C1_Witness ==
    /\ pc = "error"
    /\ Cardinality(MissingInjected) > 1
    /\ \E k \in MissingInjected : k # error

----------------------------------------------------------------------------
(* Key substitution told token by token: the token of the key at position  *)
(* n of the dictionary becomes the value of that key, in which in turn the *)
(* tokens of later keys have, or have not, been substituted.               *)

\* the position in dict, from `from` on, of the key whose token is at i;
\* 0 if there is none
ItemAt(text, dict, from, i) ==
    LET hits == { n \in from..Len(dict) : OccursAt(text, KeyToken(dict[n][1]), i) }
    IN  IF hits = {} THEN 0 ELSE Min(hits)

\* where the substitution of an inserted value starts: with the keys after
\* the n-th when `later`, nowhere otherwise
ValueFrom(dict, n, later) == IF later THEN n + 1 ELSE Len(dict) + 1

RECURSIVE ExpandFrom(_, _, _, _, _)
ExpandFrom(text, dict, from, later, i) ==
    IF i > Len(text) THEN <<>>
    ELSE LET n == ItemAt(text, dict, from, i)
         IN  IF n = 0
             THEN <<text[i]>> \o ExpandFrom(text, dict, from, later, i + 1)
             ELSE ExpandFrom(dict[n][2], dict, ValueFrom(dict, n, later), later, 1)
                    \o ExpandFrom(text, dict, from, later,
                                  i + Len(KeyToken(dict[n][1])))

\* every brace of the text belongs to a placeholder token
BracesInTokens(text) ==
    \A i \in 1..Len(text) :
        text[i] \in {"{", "}"} =>
            \E j \in KeyMatches(text) : j <= i /\ i <= RunEnd(text, j + 1)

\* the text after name substitution and the values of the dictionary have
\* all their braces in placeholder tokens
PlainTokens ==
    /\ BracesInTokens(Named)
    /\ \A n \in 1..Len(lang) : BracesInTokens(lang[n][2])

\* C5 as stated: the text inserted as the value of a key is never itself
\* substituted, whatever the order of the keys: after key substitution the
\* text is the text before it with every token of a key replaced by the
\* value of the key as the dictionary holds it.
C5_NeverResubstituted ==
    (pc \in {"keep", "error"} /\ PlainTokens) =>
        page = ExpandFrom(Named, lang, 1, FALSE, 1)

\* C5 as amended: key substitution is one pass per key in the order of the
\* dictionary, so the text inserted as the value of key A is not substituted
\* by the pass of A nor by the passes of the keys before A, but it is by the
\* passes of the keys after A: a token {B} in the value of A stays literal
\* when B is not after A and becomes the value of B when B is after A.
C5_LaterKeysResubstitute ==
    (pc \in {"keep", "error"} /\ PlainTokens) =>
        page = ExpandFrom(Named, lang, 1, TRUE, 1)

\* key substitution is over for a text that holds {A}, with a dictionary in
\* which the value of A holds {B} and B comes after A
C5_Witness ==
    /\ pc \in {"keep", "error"}
    /\ PlainTokens
    /\ \E a, b \in 1..Len(lang) :
          /\ a < b
          /\ References(lang[a][2], lang[b][1])
          /\ References(Named, lang[a][1])
          /\ ~References(page, lang[b][1])

----------------------------------------------------------------------------
\* the dictionary without its item for key k
WithoutKey(dict, k) == SelectSeq(dict, LAMBDA item : item[1] # k)

\* C8: whatever the dictionary holds, an entry for ".name" included, name
\* substitution puts the page name at every {.name} of the injected text
\* (base and fragment); and unless name substitution itself makes a new
\* {.name} of the page name, the entry for ".name" changes nothing: the text
\* after key substitution is the one the dictionary without it gives.
C8_NameFromPageOnly ==
    /\ (pc = "keys" /\ keyIdx = 1) =>
          EveryReplaced(page, Injected, NameToken, filename)
    /\ (pc \in {"keep", "error"} /\ ~References(Named, KeyName)) =>
          page = SubstituteKeysFrom(Named, WithoutKey(lang, KeyName), 1)

\* key substitution is over with a dictionary that has an entry for ".name",
\* for a base and a fragment that both hold {.name}
C8_Witness ==
    /\ pc \in {"keep", "error"}
    /\ KeyName \in KeysOf(lang)
    /\ References(base, KeyName)
    /\ References(templates[filename], KeyName)
    /\ ~References(Named, KeyName)

----------------------------------------------------------------------------
(* Conditional resolution with the tag name compared as a string: a tag    *)
(* runs from {If" over its name, up to the next '"', and its body, up to   *)
(* the next '}'.                                                           *)

TagNameEnd(text, i) == NextQuote(text, i + Len(IfOpen))

\* the position of the '}' of the tag that starts at i, 0 if none does
TagEnd(text, i) ==
    IF ~OccursAt(text, IfOpen, i) \/ TagNameEnd(text, i) = 0 THEN 0
    ELSE NextClose(text, TagNameEnd(text, i) + 1)

TagName(text, i) == SubSeq(text, i + Len(IfOpen), TagNameEnd(text, i) - 1)

TagBody(text, i) == SubSeq(text, TagNameEnd(text, i) + 1, TagEnd(text, i) - 1)

RECURSIVE ExactFrom(_, _, _)
ExactFrom(text, name, i) ==
    IF i > Len(text) THEN <<>>
    ELSE IF TagEnd(text, i) # 0
         THEN (IF TagName(text, i) = name THEN TagBody(text, i) ELSE <<>>)
                 \o ExactFrom(text, name, TagEnd(text, i) + 1)
         ELSE <<text[i]>> \o ExactFrom(text, name, i + 1)

\* the text holds a tag
HasTag(text) == \E i \in 1..Len(text) : TagEnd(text, i) # 0

\* every '{' of the text opens a tag whose name and body hold no brace
TagsWellFormed(text) ==
    \A i \in 1..Len(text) :
        text[i] = "{" =>
            /\ TagEnd(text, i) # 0
            /\ \A j \in (i + 1)..(TagEnd(text, i) - 1) : text[j] \notin {"{", "}"}

\* the text holds a placeholder token, told without the pattern of line 34
HasToken(text) ==
    \E i, j \in 1..Len(text) :
        /\ i + 1 < j
        /\ text[i] = "{"
        /\ text[j] = "}"
        /\ \A m \in (i + 1)..(j - 1) : text[m] \in KeyChars

\* C3: conditional resolution keeps the body of a tag exactly when the name
\* of the tag is string-equal to the page name and removes every other tag
\* with its body, also a tag whose name differs from the page name only
\* where the page name has a '.'.
C3_ExactTagName ==
    pc = "save" => page = ExactFrom(Checked, filename, 1)

----------------------------------------------------------------------------
\* C4 as stated: for every text that passed the completeness check,
\* conditional resolution leaves no tag, and a second conditional
\* resolution returns the same text.
C4_Idempotent ==
    pc = "save" => ~HasTag(page) /\ Resolve(page, filename) = page

\* C4 as amended: the same, for every text that passed the completeness
\* check in which every '{' opens a conditional tag {If"T"BODY} whose T and
\* BODY hold no brace (text around a tag that forms a tag once the tag in
\* its middle is removed is left as a tag by the single pass).
C4_IdempotentOnWellFormed ==
    (pc = "save" /\ TagsWellFormed(Checked)) =>
        ~HasTag(page) /\ Resolve(page, filename) = page

\* a text with a tag to keep and a tag to strip has been resolved
C4_Witness ==
    /\ pc = "save"
    /\ TagsWellFormed(Checked)
    /\ Marks(Checked, Tag(filename, <<"S">>)) # {}
    /\ \E i \in 1..Len(Checked) :
          TagEnd(Checked, i) # 0 /\ TagName(Checked, i) # filename
    /\ page # <<>>

----------------------------------------------------------------------------
\* the dictionary of the render that made the i-th write
DictFor(i) ==
    tarje[IF written[i].dir = Root THEN DEFAULT_LANGUAGE ELSE written[i].dir]

\* the value the dictionary has for key k
ValueOf(dict, k) == dict[CHOOSE n \in 1..Len(dict) : dict[n][1] = k][2]

\* the text the completeness check looked at for the i-th write
CheckedFor(i) ==
    Substituted(base, templates[written[i].name], written[i].name, DictFor(i))

\* C10 as stated: no text that a render writes out holds a placeholder
\* token.
C10_NoTokenWritten ==
    \A i \in 1..Len(written) : ~HasToken(written[i].text)

\* C10 as amended: every text that a render writes out is the conditional
\* resolution of a text that holds no placeholder token; the written text
\* itself can hold one, made of the text on both sides of a removed tag.
C10_NoTokenChecked ==
    \A i \in 1..Len(written) :
        /\ ~HasToken(CheckedFor(i))
        /\ written[i].text = Resolve(CheckedFor(i), written[i].name)

\* a written text holds a token that conditional resolution made
C10_Witness ==
    \E i \in 1..Len(written) :
        /\ HasToken(written[i].text)
        /\ HasTag(CheckedFor(i))

----------------------------------------------------------------------------
\* C9: key substitution and the completeness check come before conditional
\* resolution. (a) A written text whose injected text held a tag of its own
\* page with {t} in the body holds that body with the value of t in place
\* of {t}. (b) A render whose injected text holds {k} inside a tag, also a
\* tag of another page only, with k not in the dictionary, never reaches
\* conditional resolution: it ends in the KeyError naming a missing key.
C9_KeysBeforeTags ==
    /\ \A i \in 1..Len(written) :
          LET name == written[i].name
              body == KeptBody(KeyToken(KeyT))
          IN  ( /\ Marks(InjectContent(base, templates[name]), Tag(name, body)) # {}
                /\ KeyT \in KeysOf(DictFor(i)) )
              => Marks(written[i].text, KeptBody(ValueOf(DictFor(i), KeyT))) # {}
    /\ pc \in {"keep", "strip", "save"} =>
          \A n \in {PageA, PageB} : \A k \in KeyUniverse \ KeysOf(tarje[lang_code]) :
             \A body \in { KeyToken(k), KeptBody(KeyToken(k)) } :
                Marks(Injected, Tag(n, body)) = {}

\* a page with {t} in a tag of its own was written with the value of t, and
\* the render of another page failed on a {k} that is in a tag of the first
\* page only
C9_Witness ==
    /\ pc = "error"
    /\ \E i \in 1..Len(written) :
          /\ KeyT \in KeysOf(DictFor(i))
          /\ Marks(written[i].text, KeptBody(ValueOf(DictFor(i), KeyT))) # {}
    /\ filename = PageB
    /\ templates[filename] = Tag(PageA, KeyToken(KeyK))
    /\ error = KeyK

====
